---- MODULE Spec2Model ----
(***************************************************************************)
(* LinkedIn Network Intelligence (src/linkedin_intel.py): the export       *)
(* parser (LinkedInDataParser), the identity indexes and the scoring and   *)
(* discovery queries (NetworkAnalyzer).                                    *)
(*                                                                         *)
(* Text is a sequence of one-character strings, so that lower(), len(),    *)
(* slicing and the substring test `in` are computed and not assumed.       *)
(* Python's None is the one-element sequence <<"None">> (no text holds a   *)
(* four-character element).  A date cell of a CSV file is the triple       *)
(* <<format, day, tick-of-day>>: the format names the shape of the text,   *)
(* which is all strptime looks at, and day/tick the instant it denotes.    *)
(* Time is counted in ticks, TicksPerDay ticks a day;  day 0 tick 0 is the *)
(* instant the program starts.  Strengths are kept in tenths (round(x,1)). *)
(***************************************************************************)
EXTENDS Integers, Sequences, FiniteSets, TLC

VARIABLES
    files,                      \* data_dir: file name -> [header, rows]; absent files are not in the domain
    now,                        \* datetime.now(), in ticks
    pc,                         \* "start", "parsed", "ready", "raised", "pure"
    error,                      \* the exception that ended the run, or "none"
    connections,                \* LinkedInDataParser.connections
    messages,                   \* LinkedInDataParser.messages
    endorsements_given,         \* LinkedInDataParser.endorsements_given
    endorsements_received,      \* LinkedInDataParser.endorsements_received
    recommendations_given,      \* LinkedInDataParser.recommendations_given
    recommendations_received,   \* LinkedInDataParser.recommendations_received
    connections_by_name,        \* NetworkAnalyzer.connections_by_name
    messages_by_person,         \* NetworkAnalyzer.messages_by_person
    endorsements_received_by,   \* NetworkAnalyzer.endorsements_received_by
    endorsements_given_to,      \* NetworkAnalyzer.endorsements_given_to
    recommendations_received_from, \* NetworkAnalyzer.recommendations_received_from
    recommendations_given_to,   \* NetworkAnalyzer.recommendations_given_to
    call,                       \* the last query called, with its arguments and the time of the call
    result                      \* what it returned

parserVars == <<connections, messages, endorsements_given, endorsements_received,
                recommendations_given, recommendations_received>>
indexVars == <<connections_by_name, messages_by_person, endorsements_received_by,
               endorsements_given_to, recommendations_received_from,
               recommendations_given_to>>
vars == <<files, now, pc, error, parserVars, indexVars, call, result>>

----------------------------------------------------------------------------
(* Bounds of the model *)

\* ticks in a day: the resolution of the clock and of the timestamps
TicksPerDay == 2
\* how far the clock advances during a run, in ticks
MaxTicks == 1
\* rows of an export, over all its files
MaxRows == 3
\* connections of a bulk export
MaxBulk == 11
\* messages passed to _calculate_vouch_score
MaxMessages == 21
\* deep messages among them
MaxDeep == 6
\* recommendations received, and given
MaxRecommendations == 2
\* endorsements received
MaxDays == 400
MaxRanked == 21
MaxEcho == 6
MaxContent == 200
MaxCount == 3
MaxThread == 3
MaxDormant == 21
MaxEndorsements == 6

----------------------------------------------------------------------------
(* Text *)

None == <<"None">>

UpperCase == <<"A","B","C","D","E","F","G","H","I","J","K","L","M",
               "N","O","P","Q","R","S","T","U","V","W","X","Y","Z">>
LowerCase == <<"a","b","c","d","e","f","g","h","i","j","k","l","m",
               "n","o","p","q","r","s","t","u","v","w","x","y","z">>

\* str.lower() on one character
LowerChar(c) ==
    IF \E i \in 1..26 : UpperCase[i] = c
    THEN LowerCase[CHOOSE i \in 1..26 : UpperCase[i] = c]
    ELSE c

\* str.lower()
Lower(s) == [i \in 1..Len(s) |-> LowerChar(s[i])]

\* s[:n]
Take(s, n) == IF Len(s) <= n THEN s ELSE SubSeq(s, 1, n)

\* `sub in s` on strings
Contains(s, sub) ==
    \E i \in 0..(Len(s) - Len(sub)) :
        \A j \in 1..Len(sub) : s[i + j] = sub[j]

\* str(x) as an f-string formats it: None prints as the text None
Str(v) == IF v = None THEN <<"N","o","n","e">> ELSE v

\* s padded with filler to n characters (to write long contents)
Pad(s, n) == s \o [i \in 1..(n - Len(s)) |-> "."]

----------------------------------------------------------------------------
(* Time *)

\* timedelta(days=d)
Days(d) == d * TicksPerDay

\* (a - b).days: timedelta normalises to whole days towards minus infinity
DaysBetween(a, b) == (a - b) \div TicksPerDay

\* datetime.strptime(cell, '%d %b %Y'): <<ok, instant>>
StrptimeDMY(cell) ==
    IF cell # None /\ cell[1] = "dmy" THEN <<TRUE, Days(cell[2])>> ELSE <<FALSE, 0>>

\* datetime.strptime(cell, '%Y-%m-%d %H:%M:%S UTC'): <<ok, instant>>
StrptimeTS(cell) ==
    IF cell # None /\ cell[1] = "ts" THEN <<TRUE, Days(cell[2]) + cell[3]>> ELSE <<FALSE, 0>>

\* datetime.strptime(cell[:10], '%Y-%m-%d'): the first ten characters of a
\* timestamp, of an ISO date and of an ISO date followed by anything are an
\* ISO date; None[:10] is a TypeError, which the bare except catches too
StrptimeYMD10(cell) ==
    IF cell # None /\ cell[1] \in {"ts", "ymd", "ymd_rest"}
    THEN <<TRUE, Days(cell[2])>>
    ELSE <<FALSE, 0>>

----------------------------------------------------------------------------
(* Data models *)

\* Connection.full_name: f"{self.first_name} {self.last_name}"
full_name(conn) == Str(conn.first_name) \o <<" ">> \o Str(conn.last_name)

shallow_phrases ==
    << <<"c","o","n","g","r","a","t","s">>,
       <<"c","o","n","g","r","a","t","u","l","a","t","i","o","n","s">>,
       <<"t","h","a","n","k","s">>,
       <<"t","h","a","n","k"," ","y","o","u">>,
       <<"h","a","p","p","y"," ","b","i","r","t","h","d","a","y">>,
       <<"g","r","e","a","t"," ","p","o","s","t">>,
       <<"i","n","t","e","r","e","s","t","i","n","g">> >>

DeepMinLen == 100
DeepLongLen == 150

\* Message.is_deep looking for the phrases in the content as written
IsDeepCaseSensitive(msg) ==
    IF Len(msg.content) < DeepMinLen THEN FALSE
    ELSE IF (\E i \in 1..Len(shallow_phrases) : Contains(msg.content, shallow_phrases[i]))
            /\ Len(msg.content) < DeepLongLen
         THEN FALSE
         ELSE TRUE

\* Message.is_deep (len(None) is a TypeError: see IsDeepRaises)
is_deep(msg) ==
    IF Len(msg.content) < DeepMinLen THEN FALSE
    ELSE LET content_lower == Lower(msg.content)
         IN  IF (\E i \in 1..Len(shallow_phrases) : Contains(content_lower, shallow_phrases[i]))
                /\ Len(msg.content) < DeepLongLen
             THEN FALSE
             ELSE TRUE

\* Message.is_deep raises TypeError on a content of None: len(self.content)
IsDeepRaises(msg) == msg.content = None

----------------------------------------------------------------------------
(* csv.DictReader and dict.get *)

FileExists(name) == name \in DOMAIN files

\* the position of a column name in the header
ColumnOf(header, key) == CHOOSE i \in 1..Len(header) : header[i] = key

\* one row as DictReader yields it: a name of the header with no cell in the
\* row maps to restval, None; cells beyond the header go under the key None,
\* which nothing reads
DictRow(header, row) ==
    [key \in {header[i] : i \in 1..Len(header)} |->
        IF ColumnOf(header, key) <= Len(row) THEN row[ColumnOf(header, key)] ELSE None]

\* the rows DictReader yields for a file: it skips the rows without any cell
DictReader(name) ==
    LET f == files[name]
        data == SelectSeq(f.rows, LAMBDA r : r # <<>>)
    IN  [i \in 1..Len(data) |-> DictRow(f.header, data[i])]

\* row.get(key, default)
DictGet(row, key, default) == IF key \in DOMAIN row THEN row[key] ELSE default

\* the empty string where a date is expected: it matches no format
EmptyDate == <<"empty", 0, 0>>

----------------------------------------------------------------------------
(* LinkedInDataParser *)

DefaultConnectionAgeDays == 365

\* the body of the loop of _parse_connections, at time t
ParseConnectionRow(row, t) ==
    LET parsed == StrptimeDMY(DictGet(row, "Connected On", EmptyDate))
        connected_on == IF parsed[1] THEN parsed[2] ELSE t - Days(DefaultConnectionAgeDays)
    IN  [first_name |-> DictGet(row, "First Name", <<>>),
         last_name |-> DictGet(row, "Last Name", <<>>),
         email |-> DictGet(row, "Email Address", <<>>),
         company |-> DictGet(row, "Company", <<>>),
         position |-> DictGet(row, "Position", <<>>),
         connected_on |-> connected_on]

\* _parse_connections skipping the rows whose date does not parse
ParseConnectionsSkipping(t) ==
    IF ~FileExists("Connections.csv") THEN <<>>
    ELSE LET reader == SelectSeq(DictReader("Connections.csv"),
                           LAMBDA row : StrptimeDMY(DictGet(row, "Connected On", EmptyDate))[1])
         IN  [i \in 1..Len(reader) |-> ParseConnectionRow(reader[i], t)]

\* _parse_connections: what it appends to self.connections
parse_connections(t) ==
    IF ~FileExists("Connections.csv") THEN <<>>
    ELSE LET reader == DictReader("Connections.csv")
         IN  [i \in 1..Len(reader) |-> ParseConnectionRow(reader[i], t)]

\* the body of the loop of _parse_messages, at time t
ParseMessageRow(row, t) ==
    LET cell == DictGet(row, "DATE", EmptyDate)
        first == StrptimeTS(cell)
        second == StrptimeYMD10(cell)
        date == IF first[1] THEN first[2]
                ELSE IF second[1] THEN second[2]
                ELSE t
    IN  [conversation_id |-> DictGet(row, "CONVERSATION ID", <<>>),
         sender |-> DictGet(row, "FROM", <<>>),
         recipient |-> DictGet(row, "TO", <<>>),
         date |-> date,
         content |-> DictGet(row, "CONTENT", <<>>)]

\* _parse_messages: what it appends to self.messages
parse_messages(t) ==
    IF ~FileExists("messages.csv") THEN <<>>
    ELSE LET reader == DictReader("messages.csv")
         IN  [i \in 1..Len(reader) |-> ParseMessageRow(reader[i], t)]

\* a + ' ' + b raises TypeError when a or b is None
ConcatRaises(a, b) == a = None \/ b = None

\* the rows of a file read until the first one whose name cannot be built:
\* <<completed, rows read>>
NamedRows(name, firstKey, lastKey) ==
    IF ~FileExists(name) THEN <<TRUE, <<>> >>
    ELSE LET reader == DictReader(name)
             bad == {i \in 1..Len(reader) :
                        ConcatRaises(DictGet(reader[i], firstKey, <<>>),
                                     DictGet(reader[i], lastKey, <<>>))}
             stop == IF bad = {} THEN Len(reader) + 1
                     ELSE CHOOSE i \in bad : \A j \in bad : i <= j
         IN  <<bad = {}, SubSeq(reader, 1, stop - 1)>>

\* Endorsement(name=first + ' ' + last, skill=..., date=datetime.now())
ParseEndorsementRow(row, firstKey, lastKey, t) ==
    [name |-> DictGet(row, firstKey, <<>>) \o <<" ">> \o DictGet(row, lastKey, <<>>),
     skill |-> DictGet(row, "Skill Name", <<>>),
     date |-> t]

\* Recommendation(name=first + ' ' + last, date=datetime.now(), text=...)
ParseRecommendationRow(row, t) ==
    [name |-> DictGet(row, "First Name", <<>>) \o <<" ">> \o DictGet(row, "Last Name", <<>>),
     date |-> t,
     text |-> DictGet(row, "Recommendation", <<>>)]

\* _parse_endorsements appending the rows of each file to the other list
ParseEndorsementsSwapped(t) ==
    LET rcv == NamedRows("Endorsement_Received_Info.csv",
                         "Endorser First Name", "Endorser Last Name")
        gvn == NamedRows("Endorsement_Given_Info.csv", "First Name", "Last Name")
        received == [i \in 1..Len(rcv[2]) |->
                        ParseEndorsementRow(rcv[2][i], "Endorser First Name",
                                            "Endorser Last Name", t)]
        given == [i \in 1..Len(gvn[2]) |->
                        ParseEndorsementRow(gvn[2][i], "First Name", "Last Name", t)]
    IN  IF ~rcv[1] THEN <<FALSE, <<>>, received>>
        ELSE <<gvn[1], given, received>>

\* _parse_endorsements: <<completed, endorsements_received, endorsements_given>>
parse_endorsements(t) ==
    LET rcv == NamedRows("Endorsement_Received_Info.csv",
                         "Endorser First Name", "Endorser Last Name")
        gvn == NamedRows("Endorsement_Given_Info.csv", "First Name", "Last Name")
        received == [i \in 1..Len(rcv[2]) |->
                        ParseEndorsementRow(rcv[2][i], "Endorser First Name",
                                            "Endorser Last Name", t)]
        given == [i \in 1..Len(gvn[2]) |->
                        ParseEndorsementRow(gvn[2][i], "First Name", "Last Name", t)]
    IN  IF ~rcv[1] THEN <<FALSE, received, <<>> >>
        ELSE <<gvn[1], received, given>>

\* _parse_recommendations: <<completed, recommendations_received, recommendations_given>>
parse_recommendations(t) ==
    LET rcv == NamedRows("Recommendations_Received.csv", "First Name", "Last Name")
        gvn == NamedRows("Recommendations_Given.csv", "First Name", "Last Name")
        received == [i \in 1..Len(rcv[2]) |-> ParseRecommendationRow(rcv[2][i], t)]
        given == [i \in 1..Len(gvn[2]) |-> ParseRecommendationRow(gvn[2][i], t)]
    IN  IF ~rcv[1] THEN <<FALSE, received, <<>> >>
        ELSE <<gvn[1], received, given>>

----------------------------------------------------------------------------
(* NetworkAnalyzer._build_indexes *)

EmptyIndex == [key \in {} |-> 0]

\* index[key].append(item) on a defaultdict(list)
AppendTo(index, key, item) ==
    IF key \in DOMAIN index
    THEN [index EXCEPT ![key] = Append(@, item)]
    ELSE [k \in DOMAIN index \cup {key} |-> IF k = key THEN <<item>> ELSE index[k]]

\* index[key] += 1 on a defaultdict(int)
Increment(index, key) ==
    IF key \in DOMAIN index
    THEN [index EXCEPT ![key] = @ + 1]
    ELSE [k \in DOMAIN index \cup {key} |-> IF k = key THEN 1 ELSE index[k]]

\* the loop over parser.connections: the first n of them entered
RECURSIVE IndexConnections(_, _)
IndexConnections(conns, n) ==
    IF n = 0 THEN EmptyIndex
    ELSE LET index == IndexConnections(conns, n - 1)
             key == Lower(full_name(conns[n]))
         IN  [k \in DOMAIN index \cup {key} |-> IF k = key THEN conns[n] ELSE index[k]]

\* the loop over parser.messages entering a message once when its sender and
\* its recipient fall under one key
RECURSIVE IndexMessagesOnce(_, _)
IndexMessagesOnce(msgs, n) ==
    IF n = 0 THEN EmptyIndex
    ELSE LET index == IndexMessagesOnce(msgs, n - 1)
             bySender == AppendTo(index, Lower(msgs[n].sender), msgs[n])
         IN  IF Lower(msgs[n].recipient) = Lower(msgs[n].sender) THEN bySender
             ELSE AppendTo(bySender, Lower(msgs[n].recipient), msgs[n])

\* the loop over parser.messages: the first n of them entered, under the
\* sender and then under the recipient
RECURSIVE IndexMessages(_, _)
IndexMessages(msgs, n) ==
    IF n = 0 THEN EmptyIndex
    ELSE LET index == IndexMessages(msgs, n - 1)
             bySender == AppendTo(index, Lower(msgs[n].sender), msgs[n])
         IN  AppendTo(bySender, Lower(msgs[n].recipient), msgs[n])

\* msg.sender.lower() or msg.recipient.lower() raises AttributeError on None
IndexMessagesRaises(msgs) ==
    \E i \in 1..Len(msgs) : msgs[i].sender = None \/ msgs[i].recipient = None

\* the counting loops without the case folding of the name
RECURSIVE CountByExactName(_, _)
CountByExactName(items, n) ==
    IF n = 0 THEN EmptyIndex
    ELSE Increment(CountByExactName(items, n - 1), items[n].name)

\* the four counting loops: the first n items counted under their name
RECURSIVE CountByName(_, _)
CountByName(items, n) ==
    IF n = 0 THEN EmptyIndex
    ELSE Increment(CountByName(items, n - 1), Lower(items[n].name))

\* index.get(key, default)
IndexGet(index, key, default) == IF key \in DOMAIN index THEN index[key] ELSE default

----------------------------------------------------------------------------
(* Half-life strength: round(100 * math.pow(0.5, days_since / 180), 1)        *)
(* The power is computed in fixed point, FixedOne standing for 1.0: the      *)
(* exponent is split into whole half-lives and a rest of 0..179 days, and    *)
(* the rest into its binary digits, HalfPowers[i] being 0.5^(2^(i-1)/180).   *)
(* The result is the float computation's for -1000 <= days_since <= 40000.   *)

HALF_LIFE_DAYS == 180
RECOMMENDATION_POINTS == 10
ENDORSEMENT_POINTS == 2

FixedOne == 268435456
Limb == 16384
HalfPowers == <<267403748, 266376005, 264332354, 260291968,
                252395529, 237314041, 209800728, 163973665>>

\* a * b / FixedOne, on two half-words so that no product leaves 32 bits
MulFixed(a, b) ==
    LET ah == a \div Limb
        al == a % Limb
        bh == b \div Limb
        bl == b % Limb
    IN  ah * bh + ((ah * bl + al * bh) + (al * bl) \div Limb) \div Limb

\* 0.5^(rest/180) for 0 <= rest < 180, from binary digit i of rest on
RECURSIVE PowHalf(_, _, _)
PowHalf(rest, i, acc) ==
    IF i > Len(HalfPowers) THEN acc
    ELSE PowHalf(rest, i + 1,
                 IF (rest \div 2^(i - 1)) % 2 = 1 THEN MulFixed(acc, HalfPowers[i]) ELSE acc)

\* round() of num/den to an integer: to nearest, ties to even
RoundHalfEven(num, den) ==
    LET q == num \div den
        rem == num % den
    IN  IF 2 * rem > den THEN q + 1
        ELSE IF 2 * rem < den THEN q
        ELSE IF q % 2 = 0 THEN q ELSE q + 1

\* the strength computed from the distance in days, whatever its sign
StrengthOfDistance(days_since) ==
    LET days == IF days_since < 0 THEN 0 - days_since ELSE days_since
        half_lives == days \div HALF_LIFE_DAYS
        rest == days % HALF_LIFE_DAYS
        x == PowHalf(rest, 1, FixedOne)
        num == 1000 * (x \div Limb) + (1000 * (x % Limb)) \div Limb
    IN  IF half_lives >= 16 THEN 0
        ELSE RoundHalfEven(num, Limb * 2^half_lives)

\* the strength computed with the day of the contact counted as well
StrengthOfNextDay(days_since) ==
    LET days == days_since + 1
        half_lives == days \div HALF_LIFE_DAYS
        rest == days % HALF_LIFE_DAYS
        x == PowHalf(rest, 1, FixedOne)
        num == 1000 * (x \div Limb) + (1000 * (x % Limb)) \div Limb
    IN  IF half_lives >= 16 THEN 0
        ELSE IF half_lives >= 0 THEN RoundHalfEven(num, Limb * 2^half_lives)
        ELSE RoundHalfEven(num * 2^(0 - half_lives), Limb)

\* round(100 * math.pow(0.5, days_since / HALF_LIFE_DAYS), 1), in tenths
Strength10(days_since) ==
    LET half_lives == days_since \div HALF_LIFE_DAYS
        rest == days_since % HALF_LIFE_DAYS
        x == PowHalf(rest, 1, FixedOne)
        num == 1000 * (x \div Limb) + (1000 * (x % Limb)) \div Limb
    IN  IF half_lives >= 16 THEN 0
        ELSE IF half_lives >= 0 THEN RoundHalfEven(num, Limb * 2^half_lives)
        ELSE RoundHalfEven(num * 2^(0 - half_lives), Limb)

----------------------------------------------------------------------------
(* NetworkAnalyzer: scoring *)

Min(a, b) == IF a <= b THEN a ELSE b

\* max(m.date for m in msgs), msgs not empty
MaxDate(msgs) ==
    CHOOSE d \in {msgs[i].date : i \in 1..Len(msgs)} :
        \A i \in 1..Len(msgs) : msgs[i].date <= d

\* _calculate_vouch_score with >= in the place of > in the recency bands
VouchFromThreshold(msgs, deep_messages, days_since, rec_received, rec_given, end_received) ==
    LET depth == IF msgs = <<>> THEN 0
                 ELSE IF deep_messages = <<>> THEN 5
                 ELSE IF Len(deep_messages) < 5 THEN 15
                 ELSE 30
        recency == IF days_since >= 730 THEN 0
                   ELSE IF days_since >= 365 THEN 5
                   ELSE IF days_since >= 180 THEN 10
                   ELSE 20
        recs == IF rec_received > 0 THEN 30
                ELSE IF rec_given > 0 THEN 10
                ELSE 0
        endorsed == Min(end_received * 2, 10)
        volume == IF Len(msgs) > 20 THEN 10
                  ELSE IF Len(msgs) > 10 THEN 5
                  ELSE 0
    IN  Min(depth + recency + recs + endorsed + volume, 100)

\* _calculate_vouch_score without its two caps
VouchUncapped(msgs, deep_messages, days_since, rec_received, rec_given, end_received) ==
    LET depth == IF msgs = <<>> THEN 0
                 ELSE IF deep_messages = <<>> THEN 5
                 ELSE IF Len(deep_messages) < 5 THEN 15
                 ELSE 30
        recency == IF days_since > 730 THEN 0
                   ELSE IF days_since > 365 THEN 5
                   ELSE IF days_since > 180 THEN 10
                   ELSE 20
        recs == IF rec_received > 0 THEN 30
                ELSE IF rec_given > 0 THEN 10
                ELSE 0
        endorsed == end_received * 2
        volume == IF Len(msgs) > 20 THEN 10
                  ELSE IF Len(msgs) > 10 THEN 5
                  ELSE 0
    IN  depth + recency + recs + endorsed + volume

\* _calculate_vouch_score with the two recommendation branches exchanged
VouchGivenFirst(msgs, deep_messages, days_since, rec_received, rec_given, end_received) ==
    LET depth == IF msgs = <<>> THEN 0
                 ELSE IF deep_messages = <<>> THEN 5
                 ELSE IF Len(deep_messages) < 5 THEN 15
                 ELSE 30
        recency == IF days_since > 730 THEN 0
                   ELSE IF days_since > 365 THEN 5
                   ELSE IF days_since > 180 THEN 10
                   ELSE 20
        recs == IF rec_given > 0 THEN 10
                ELSE IF rec_received > 0 THEN 30
                ELSE 0
        endorsed == Min(end_received * 2, 10)
        volume == IF Len(msgs) > 20 THEN 10
                  ELSE IF Len(msgs) > 10 THEN 5
                  ELSE 0
    IN  Min(depth + recency + recs + endorsed + volume, 100)

\* _calculate_vouch_score
calculate_vouch_score(msgs, deep_messages, days_since, rec_received, rec_given, end_received) ==
    LET depth == IF msgs = <<>> THEN 0
                 ELSE IF deep_messages = <<>> THEN 5
                 ELSE IF Len(deep_messages) < 5 THEN 15
                 ELSE 30
        recency == IF days_since > 730 THEN 0
                   ELSE IF days_since > 365 THEN 5
                   ELSE IF days_since > 180 THEN 10
                   ELSE 20
        recs == IF rec_received > 0 THEN 30
                ELSE IF rec_given > 0 THEN 10
                ELSE 0
        endorsed == Min(end_received * 2, 10)
        volume == IF Len(msgs) > 20 THEN 10
                  ELSE IF Len(msgs) > 10 THEN 5
                  ELSE 0
    IN  Min(depth + recency + recs + endorsed + volume, 100)

\* the messages indexed under the connection's name
MessagesOf(conn) == IndexGet(messages_by_person, Lower(full_name(conn)), <<>>)

\* last_contact taken from the latest message, deep or not
LastContactOfAnyMessage(conn) ==
    LET msgs == MessagesOf(conn)
    IN  IF msgs # <<>> THEN MaxDate(msgs) ELSE conn.connected_on

\* last_contact of the loop body of calculate_relationship_scores
LastContact(conn) ==
    LET msgs == MessagesOf(conn)
        deep_messages == SelectSeq(msgs, is_deep)
    IN  IF deep_messages # <<>> THEN MaxDate(deep_messages)
        ELSE IF msgs # <<>> THEN MaxDate(msgs)
        ELSE conn.connected_on

\* the balance with the received endorsements weighted as recommendations
ReciprocityLopsided(r_given, e_given, r_received, e_received) ==
    LET points_given == r_given * RECOMMENDATION_POINTS + e_given * ENDORSEMENT_POINTS
        points_received == r_received * RECOMMENDATION_POINTS
                           + e_received * RECOMMENDATION_POINTS
    IN  points_given - points_received

\* reciprocity = points_given - points_received
reciprocity(r_given, e_given, r_received, e_received) ==
    LET points_given == r_given * RECOMMENDATION_POINTS + e_given * ENDORSEMENT_POINTS
        points_received == r_received * RECOMMENDATION_POINTS
                           + e_received * ENDORSEMENT_POINTS
    IN  points_given - points_received

\* the body of the loop of calculate_relationship_scores, at time t
ScoreOf(conn, t) ==
    LET name_lower == Lower(full_name(conn))
        msgs == IndexGet(messages_by_person, name_lower, <<>>)
        deep_messages == SelectSeq(msgs, is_deep)
        last_contact == LastContact(conn)
        days_since == DaysBetween(t, last_contact)
        e_received == IndexGet(endorsements_received_by, name_lower, 0)
        e_given == IndexGet(endorsements_given_to, name_lower, 0)
        r_received == IndexGet(recommendations_received_from, name_lower, 0)
        r_given == IndexGet(recommendations_given_to, name_lower, 0)
    IN  [name |-> full_name(conn),
         company |-> conn.company,
         half_life_strength |-> Strength10(days_since),
         vouch_score |-> calculate_vouch_score(msgs, deep_messages, days_since,
                                               r_received, r_given, e_received),
         reciprocity_balance |-> reciprocity(r_given, e_given, r_received, e_received),
         last_meaningful_contact |-> IF msgs # <<>> THEN <<last_contact>> ELSE None,
         days_since_contact |-> days_since,
         shared_history |-> FALSE,
         messages_exchanged |-> Len(msgs),
         recommendations_given |-> r_given,
         recommendations_received |-> r_received,
         endorsements_given |-> e_given,
         endorsements_received |-> e_received]

\* calculate_relationship_scores raises TypeError: m.is_deep on a message
\* indexed under a connection's name whose content is None
ScoresRaise ==
    \E i \in 1..Len(connections) :
        \E j \in 1..Len(MessagesOf(connections[i])) :
            IsDeepRaises(MessagesOf(connections[i])[j])

\* calculate_relationship_scores looping over connections_by_name, which
\* holds one connection for each lower-cased name
ScoresByName(t) ==
    LET kept == SelectSeq(connections,
                    LAMBDA conn : connections_by_name[Lower(full_name(conn))] = conn)
    IN  [i \in 1..Len(kept) |-> ScoreOf(kept[i], t)]

\* calculate_relationship_scores, at time t
calculate_relationship_scores(t) ==
    [i \in 1..Len(connections) |-> ScoreOf(connections[i], t)]

----------------------------------------------------------------------------
(* NetworkAnalyzer: discovery *)

\* sorted(items, key=...)[::-1] in the place of reverse=True: items of one
\* key come out in the reverse of their order
SortedThenReversed(items, keys, reverse) ==
    LET n == Len(items)
        Before(i, j) == IF keys[i] = keys[j] THEN (IF reverse THEN i > j ELSE i < j)
                        ELSE IF reverse THEN keys[i] > keys[j]
                        ELSE keys[i] < keys[j]
        Rank(i) == Cardinality({j \in 1..n : Before(j, i)}) + 1
    IN  [p \in 1..n |-> items[CHOOSE i \in 1..n : Rank(i) = p]]

\* sorted(items, key=..., reverse=...), keys[i] being the key of items[i]:
\* the sort is stable, reversed or not
Sorted(items, keys, reverse) ==
    LET n == Len(items)
        Before(i, j) == IF keys[i] = keys[j] THEN i < j
                        ELSE IF reverse THEN keys[i] > keys[j]
                        ELSE keys[i] < keys[j]
        Rank(i) == Cardinality({j \in 1..n : Before(j, i)}) + 1
    IN  [p \in 1..n |-> items[CHOOSE i \in 1..n : Rank(i) = p]]

\* get_warmest_relationships(top_n), at time t
get_warmest_relationships(top_n, t) ==
    LET scores == calculate_relationship_scores(t)
        keys == [i \in 1..Len(scores) |-> scores[i].half_life_strength]
    IN  Take(Sorted(scores, keys, TRUE), top_n)

\* get_going_cold(top_n), at time t: strengths of 30 to 70, in tenths
get_going_cold(top_n, t) ==
    LET scores == calculate_relationship_scores(t)
        going_cold == SelectSeq(scores,
                          LAMBDA s : 300 <= s.half_life_strength /\ s.half_life_strength <= 700)
        keys == [i \in 1..Len(going_cold) |-> going_cold[i].vouch_score]
    IN  Take(Sorted(going_cold, keys, TRUE), top_n)

\* get_top_advocates(top_n), at time t
get_top_advocates(top_n, t) ==
    LET scores == calculate_relationship_scores(t)
        keys == [i \in 1..Len(scores) |-> scores[i].vouch_score]
    IN  Take(Sorted(scores, keys, TRUE), top_n)

ReciprocityLimit == 15

\* get_reciprocity_balance with >= 0 in the place of > 0
ReciprocityFromZero(t) ==
    LET scores == calculate_relationship_scores(t)
        owing == SelectSeq(scores, LAMBDA s : s.reciprocity_balance >= 0)
        owed == SelectSeq(scores, LAMBDA s : s.reciprocity_balance < 0)
        they_owe == Sorted(owing, [i \in 1..Len(owing) |-> owing[i].reciprocity_balance], TRUE)
        you_owe == Sorted(owed, [i \in 1..Len(owed) |-> owed[i].reciprocity_balance], FALSE)
    IN  <<Take(they_owe, ReciprocityLimit), Take(you_owe, ReciprocityLimit)>>

\* get_reciprocity_balance, at time t: <<they_owe[:15], you_owe[:15]>>
get_reciprocity_balance(t) ==
    LET scores == calculate_relationship_scores(t)
        owing == SelectSeq(scores, LAMBDA s : s.reciprocity_balance > 0)
        owed == SelectSeq(scores, LAMBDA s : s.reciprocity_balance < 0)
        they_owe == Sorted(owing, [i \in 1..Len(owing) |-> owing[i].reciprocity_balance], TRUE)
        you_owe == Sorted(owed, [i \in 1..Len(owed) |-> owed[i].reciprocity_balance], FALSE)
    IN  <<Take(they_owe, ReciprocityLimit), Take(you_owe, ReciprocityLimit)>>

WarmPathLimit == 10

\* find_warm_paths raises AttributeError: s.company.lower() on a company of None
WarmPathsRaise == \E i \in 1..Len(connections) : connections[i].company = None

\* the key of the sort of find_warm_paths, in tenths
Warmth(s) == s.half_life_strength + 10 * s.vouch_score

\* find_warm_paths sorting without reverse=True
WarmPathsAscending(target_company, t) ==
    LET scores == calculate_relationship_scores(t)
        direct == SelectSeq(scores,
                      LAMBDA s : Contains(Lower(s.company), Lower(target_company)))
        keys == [i \in 1..Len(direct) |-> Warmth(direct[i])]
    IN  Take(Sorted(direct, keys, FALSE), WarmPathLimit)

\* find_warm_paths(target_company), at time t
find_warm_paths(target_company, t) ==
    LET scores == calculate_relationship_scores(t)
        direct == SelectSeq(scores,
                      LAMBDA s : Contains(Lower(s.company), Lower(target_company)))
        keys == [i \in 1..Len(direct) |-> Warmth(direct[i])]
    IN  Take(Sorted(direct, keys, TRUE), WarmPathLimit)

catch_up_phrases ==
    << <<"c","a","t","c","h"," ","u","p">>,
       <<"g","r","a","b"," ","c","o","f","f","e","e">>,
       <<"g","e","t"," ","t","o","g","e","t","h","e","r">>,
       <<"h","a","p","p","y"," ","t","o"," ","h","e","l","p">>,
       <<"l","e","t"," ","m","e"," ","k","n","o","w">>,
       <<"w","o","u","l","d"," ","l","o","v","e"," ","t","o">> >>

ResurrectionMinDays == 90
HookLength == 100
ResurrectionLimit == 20

\* the condition of the inner loop with >= in the place of >
IsCatchUpFromMinDays(msg, t) ==
    /\ DaysBetween(t, msg.date) >= ResurrectionMinDays
    /\ \E i \in 1..Len(catch_up_phrases) : Contains(Lower(msg.content), catch_up_phrases[i])

\* the condition of the inner loop of find_resurrection_opportunities
IsCatchUp(msg, t) ==
    /\ DaysBetween(t, msg.date) > ResurrectionMinDays
    /\ \E i \in 1..Len(catch_up_phrases) : Contains(Lower(msg.content), catch_up_phrases[i])

\* the inner loop without its break: the last message that matches wins
ScanEndLast(msgs, t) ==
    LET ends == {i \in 1..Len(msgs) : msgs[i].content = None \/ IsCatchUp(msgs[i], t)}
    IN  IF ends = {} THEN 0 ELSE CHOOSE i \in ends : \A j \in ends : i >= j

\* where the inner loop over a connection's messages ends: at the first
\* message that matches (break) or whose content is None (msg.content.lower()
\* raises AttributeError), 0 if it runs to the end
ScanEnd(msgs, t) ==
    LET ends == {i \in 1..Len(msgs) : msgs[i].content = None \/ IsCatchUp(msgs[i], t)}
    IN  IF ends = {} THEN 0 ELSE CHOOSE i \in ends : \A j \in ends : i <= j

\* find_resurrection_opportunities raises AttributeError
ResurrectionRaises(t) ==
    \E i \in 1..Len(connections) :
        LET msgs == MessagesOf(connections[i])
        IN  ScanEnd(msgs, t) # 0 /\ msgs[ScanEnd(msgs, t)].content = None

\* the opportunities appended for the first n connections
RECURSIVE Opportunities(_, _)
Opportunities(n, t) ==
    IF n = 0 THEN <<>>
    ELSE LET conn == connections[n]
             msgs == MessagesOf(conn)
             at == ScanEnd(msgs, t)
         IN  IF at = 0 THEN Opportunities(n - 1, t)
             ELSE Append(Opportunities(n - 1, t),
                         [name |-> full_name(conn),
                          company |-> conn.company,
                          last_message_date |-> msgs[at].date,
                          days_ago |-> DaysBetween(t, msgs[at].date),
                          hook |-> Take(msgs[at].content, HookLength) \o <<".", ".", ".">>,
                          type |-> "catch_up_promised"])

\* find_resurrection_opportunities sorting with reverse=True
ResurrectionOldestFirst(t) ==
    LET opportunities == Opportunities(Len(connections), t)
        keys == [i \in 1..Len(opportunities) |-> opportunities[i].days_ago]
    IN  Take(Sorted(opportunities, keys, TRUE), ResurrectionLimit)

\* find_resurrection_opportunities, at time t
find_resurrection_opportunities(t) ==
    LET opportunities == Opportunities(Len(connections), t)
        keys == [i \in 1..Len(opportunities) |-> opportunities[i].days_ago]
    IN  Take(Sorted(opportunities, keys, FALSE), ResurrectionLimit)

----------------------------------------------------------------------------
(* The exports the model reads: the tables of section EXTERNAL INTERFACES,  *)
(* as generate_sample_data writes them                                      *)

ConnectionsHeader ==
    <<"First Name", "Last Name", "Email Address", "Company", "Position", "Connected On">>
MessagesHeader == <<"CONVERSATION ID", "FROM", "TO", "DATE", "CONTENT">>
EndorsementsReceivedHeader == <<"Endorser First Name", "Endorser Last Name", "Skill Name">>
EndorsementsGivenHeader == <<"First Name", "Last Name", "Skill Name">>
RecommendationsHeader == <<"First Name", "Last Name", "Recommendation">>

FileNames ==
    {"Connections.csv", "messages.csv", "Endorsement_Received_Info.csv",
     "Endorsement_Given_Info.csv", "Recommendations_Received.csv",
     "Recommendations_Given.csv"}

HeaderOf(name) ==
    CASE name = "Connections.csv" -> ConnectionsHeader
      [] name = "messages.csv" -> MessagesHeader
      [] name = "Endorsement_Received_Info.csv" -> EndorsementsReceivedHeader
      [] name = "Endorsement_Given_Info.csv" -> EndorsementsGivenHeader
      [] OTHER -> RecommendationsHeader

Ann == <<"A","n","n">>
Lee == <<"L","e","e">>
Bob == <<"B","o","b">>
Ray == <<"R","a","y">>
Me == <<"M","e">>
AnnLee == <<"A","n","n"," ","L","e","e">>
BobRay == <<"B","o","b"," ","R","a","y">>
Acme == <<"A","c","m","e">>
AcmeLabs == <<"A","C","M","E"," ","L","a","b","s">>
Skill == <<"S","Q","L">>
Mail == <<"a","@","x">>
Role == <<"C","T","O">>
Conv == <<"c","1">>

\* contents: a short catch-up line, a deep one with a catch-up phrase, and a
\* long thank-you that is not deep
CatchUpShort == <<"L","e","t","'","s"," ","C","a","t","c","h"," ","U","p">>
CatchUpDeep == Pad(<<"W","o","u","l","d"," ","L","O","V","E"," ","t","o"," ","t","a","l","k">>,
                   DeepMinLen)
ThanksLong == Pad(<<"T","h","a","n","k","s","!">>, DeepMinLen + 20)
Hello == <<"H","i">>

\* rows of Connections.csv: connected exactly a year ago; another person
ConnectionRows ==
    { <<Ann, Lee, Mail, Acme, Role, <<"dmy", 0 - 365, 0>> >>,
      <<Bob, Ray, <<>>, AcmeLabs, <<>>, <<"dmy", 0 - 30, 0>> >> }

\* rows of messages.csv: a promise to catch up that turns 91 days old during
\* the run; an older deep message to the same person, in capitals; a long
\* thank-you from the other one
MessageRows ==
    { <<Conv, AnnLee, Me, <<"ts", 0 - 91, 1>>, CatchUpShort>>,
      <<Conv, Me, <<"A","N","N"," ","L","E","E">>, <<"ts", 0 - 200, 0>>, CatchUpDeep>>,
      <<Conv, BobRay, Me, <<"ts", 0 - 10, 1>>, ThanksLong>> }

\* rows of the endorsement and recommendation tables
EndorsementReceivedRows ==
    { <<Ann, Lee, Skill>>, <<<<"A","N","N">>, Lower(Lee), Skill>> }
EndorsementGivenRows == { <<Ann, Lee, Skill>> }
RecommendationReceivedRows == { <<Bob, Ray, Hello>> }
RecommendationGivenRows == { <<Lower(Ann), Lower(Lee), Hello>> }

\* date cells of Connections.csv: the half-life ago, tomorrow, long ago, an
\* ISO date (not the format of the column), no date at all
ConnectionDates ==
    { <<"dmy", 0 - 180, 0>>, <<"dmy", 1, 0>>, <<"dmy", 0 - 2000, 0>>,
      <<"ymd", 0 - 10, 0>>, <<"junk", 0, 0>> }

\* date cells of messages.csv: a stamp 91 days old, one later than the clock
\* (the export's stamps are UTC, datetime.now() is local time), an ISO date,
\* an ISO date and time, a date in the format of Connections.csv, no date
MessageDates ==
    { <<"ts", 0 - 91, 0>>, <<"ts", 0, 1>>, <<"ymd", 0 - 100, 0>>,
      <<"ymd_rest", 0 - 10, 1>>, <<"dmy", 0 - 5, 0>>, <<"junk", 0, 0>> }

\* the row every file holds in the exports of PresenceExports and BrokenExports
SampleRow(name) ==
    CASE name = "Connections.csv" -> <<Ann, Lee, Mail, Acme, Role, <<"dmy", 0 - 30, 0>> >>
      [] name = "messages.csv" -> <<Conv, AnnLee, Me, <<"ts", 0 - 20, 1>>, CatchUpDeep>>
      [] name \in {"Endorsement_Received_Info.csv", "Endorsement_Given_Info.csv"} ->
            <<Ann, Lee, Skill>>
      [] OTHER -> <<Ann, Lee, Hello>>

\* rows with fewer cells than the header
ShortRows(name) ==
    CASE name = "Connections.csv" -> { <<Ann, Lee, Mail>>, <<Ann>> }
      [] name = "messages.csv" ->
            { <<Conv, AnnLee, Me, <<"ts", 0 - 100, 0>> >>, <<Conv, AnnLee, Me>>, <<Conv, AnnLee>> }
      [] OTHER -> { <<Ann>> }

RECURSIVE Sum(_, _)
Sum(f, S) == IF S = {} THEN 0
             ELSE LET x == CHOOSE x \in S : TRUE IN f[x] + Sum(f, S \ {x})

\* the export made of the given rows; a file without rows is absent
Export(rows) ==
    [name \in {n \in FileNames : rows[n] # <<>>} |->
        [header |-> HeaderOf(name), rows |-> rows[name]]]

\* exports of at most MaxRows rows in all
SmallExports ==
    UNION { { Export([n \in FileNames |->
                CASE n = "Connections.csv" -> c
                  [] n = "messages.csv" -> m
                  [] n = "Endorsement_Received_Info.csv" -> er
                  [] n = "Endorsement_Given_Info.csv" -> eg
                  [] n = "Recommendations_Received.csv" -> rr
                  [] OTHER -> rg]) :
              c \in [1..count["Connections.csv"] -> ConnectionRows],
              m \in [1..count["messages.csv"] -> MessageRows],
              er \in [1..count["Endorsement_Received_Info.csv"] -> EndorsementReceivedRows],
              eg \in [1..count["Endorsement_Given_Info.csv"] -> EndorsementGivenRows],
              rr \in [1..count["Recommendations_Received.csv"] -> RecommendationReceivedRows],
              rg \in [1..count["Recommendations_Given.csv"] -> RecommendationGivenRows] } :
            count \in {k \in [FileNames -> 0..MaxRows] : Sum(k, FileNames) <= MaxRows} }

\* exports of any of the six files, which all hold their header alone or all
\* hold a blank line and their sample row
PresenceExports ==
    { [name \in present |->
          [header |-> HeaderOf(name),
           rows |-> IF full THEN << <<>>, SampleRow(name) >> ELSE <<>>]] :
      present \in SUBSET FileNames, full \in BOOLEAN }

\* exports of one connection and at most one message from it, of any date
DatedExports ==
    { [name \in {"Connections.csv"} \cup (IF withMessage THEN {"messages.csv"} ELSE {}) |->
          [header |-> HeaderOf(name),
           rows |-> IF name = "Connections.csv"
                    THEN << <<Ann, Lee, Mail, Acme, Role, connected>> >>
                    ELSE << <<Conv, AnnLee, Me, sent, CatchUpShort>> >>]] :
      connected \in ConnectionDates, sent \in MessageDates, withMessage \in BOOLEAN }

\* exports in which one file holds a short row, after its sample row or
\* alone, and the other files are absent or all hold their sample row
BrokenExports ==
    UNION { { [name \in (IF others THEN FileNames ELSE {broken}) |->
                 [header |-> HeaderOf(name),
                  rows |-> IF name # broken THEN <<SampleRow(name)>>
                           ELSE IF first THEN <<SampleRow(name), short>>
                           ELSE <<short>>]] :
              short \in ShortRows(broken), first \in BOOLEAN, others \in BOOLEAN } :
            broken \in FileNames }

\* exports of up to MaxBulk connections and nothing else: every step-th
\* connection works at AcmeLabs, the others at Acme, each connected on a
\* day of its own
BulkSteps == 1..3
BulkRow(i, step) ==
    <<Ann, Lee, Mail, IF i % step = 0 THEN AcmeLabs ELSE Acme, Role,
      <<"dmy", 0 - ((i * 37) % 400), 0>> >>
BulkExports ==
    { [name \in {"Connections.csv"} |->
          [header |-> ConnectionsHeader, rows |-> [i \in 1..n |-> BulkRow(i, step)]]] :
      n \in 0..MaxBulk, step \in BulkSteps }

\* a catch-up line longer than the hook
CatchUpLong == Pad(<<"G","r","a","b"," ","c","o","f","f","e","e","?">>, HookLength + 20)

\* rows of messages.csv of one thread: a message from Ann Lee that is 91
\* days old half a day from now, one she sent to herself, and a long one to her
ThreadRows ==
    { <<Conv, AnnLee, Me, <<"ts", 0 - 91, 1>>, CatchUpShort>>,
      <<Conv, AnnLee, Lower(AnnLee), <<"ts", 0 - 120, 0>>, CatchUpShort>>,
      <<Conv, Me, AnnLee, <<"ts", 0 - 150, 0>>, CatchUpLong>> }

\* exports of two connections and up to MaxThread messages
ThreadExports ==
    UNION { { [name \in {"Connections.csv"} \cup (IF n = 0 THEN {} ELSE {"messages.csv"}) |->
                 [header |-> HeaderOf(name),
                  rows |-> IF name = "Connections.csv"
                           THEN << <<Ann, Lee, Mail, Acme, Role, <<"dmy", 0 - 365, 0>> >>,
                                   <<Bob, Ray, Mail, AcmeLabs, Role, <<"dmy", 0 - 30, 0>> >> >>
                           ELSE rows]] :
              rows \in [1..n -> ThreadRows] } : n \in 0..MaxThread }

\* exports of up to MaxDormant connections, each with one message of its
\* own age, 91 days old or older: every step-th one holds no catch-up phrase
\* when step > 1
DormantSteps == 1..3
DormantConnection(i) ==
    << <<UpperCase[i]>>, Lee, Mail, Acme, Role, <<"dmy", 0 - 400, 0>> >>
DormantMessage(i, step) ==
    <<Conv, <<UpperCase[i]>> \o <<" ">> \o Lee, Me,
      <<"ts", 0 - (91 + ((i * 7) % 23)), 0>>,
      IF step > 1 /\ i % step = 0 THEN Hello ELSE CatchUpShort>>
DormantExports ==
    { [name \in {"Connections.csv", "messages.csv"} |->
          [header |-> HeaderOf(name),
           rows |-> IF name = "Connections.csv"
                    THEN [i \in 1..n |-> DormantConnection(i)]
                    ELSE [i \in 1..n |-> DormantMessage(i, step)]]] :
      n \in 0..MaxDormant, step \in DormantSteps }

\* the first name of the i-th ranked connection: a letter of its own for the
\* first twenty, then the first names again in lower case
RankedFirst(i) == IF i <= 20 THEN <<UpperCase[i]>> ELSE <<LowerCase[i - 20]>>

\* who owes whom in a ranked export: 1 when the user gave more to the i-th
\* connection, -1 when the connection gave more, 0 when nothing was given
RankedSign(i) == IF i % 8 = 0 THEN 0 - 1 ELSE IF i % 9 = 2 THEN 0 ELSE 1

RankedConnection(i) ==
    <<RankedFirst(i), Lee, Mail, Acme, Role, <<"dmy", 0 - (((i * 37) % 11) * 40), 0>> >>

\* the connections of the set kept among the first n, each one named
\* (i % 3) + 1 times: one row of a ranked export for each
RECURSIVE RankedRows(_, _)
RankedRows(n, kept) ==
    IF n = 0 THEN <<>>
    ELSE RankedRows(n - 1, kept) \o
         (IF n \in kept THEN [k \in 1..((n % 3) + 1) |-> n] ELSE <<>>)

\* the sizes of the ranked exports: none, and MaxRanked less a multiple of seven
RankedSizes == {0} \cup {n \in 1..MaxRanked : (MaxRanked - n) % 7 = 0}

\* exports of up to MaxRanked connections, connected 0 to 400 days ago: every
\* third one sent a message, every sixteenth one wrote recommendations, and
\* endorsements went one way for each connection
RankedExports ==
    { [name \in FileNames |->
          [header |-> HeaderOf(name),
           rows |->
             LET named(rows) == [k \in 1..Len(rows) |-> <<RankedFirst(rows[k]), Lee, Skill>>]
                 signed(sign) == {i \in 1..n : RankedSign(i) = sign}
             IN  CASE name = "Connections.csv" -> [i \in 1..n |-> RankedConnection(i)]
                   [] name = "messages.csv" ->
                        LET senders == RankedRows(n, {i \in 1..n : i % 3 = 0})
                        IN  [k \in 1..Len(senders) |->
                               <<Conv, RankedFirst(senders[k]) \o <<" ">> \o Lee, Me,
                                 <<"ts", 0 - (senders[k] * 9), 0>>,
                                 IF senders[k] % 2 = 0 THEN CatchUpDeep ELSE Hello>>]
                   [] name = "Endorsement_Given_Info.csv" -> named(RankedRows(n, signed(1)))
                   [] name = "Endorsement_Received_Info.csv" ->
                        named(RankedRows(n, signed(0 - 1)))
                   [] name = "Recommendations_Received.csv" ->
                        named(RankedRows(n, {i \in signed(0 - 1) : i % 16 = 0}))
                   [] OTHER -> <<>>]] :
      n \in RankedSizes }

\* exports of one connection and up to MaxEcho messages she sent to herself
\* (MaxEcho less a multiple of three), all deep or all short
EchoExports ==
    { [name \in {"Connections.csv", "messages.csv"} |->
          [header |-> HeaderOf(name),
           rows |-> IF name = "Connections.csv"
                    THEN << <<Ann, Lee, Mail, Acme, Role, <<"dmy", 0 - 30, 0>> >> >>
                    ELSE [i \in 1..n |->
                            <<Conv, AnnLee, Lower(AnnLee), <<"ts", 0 - i, 0>>,
                              IF deep THEN CatchUpDeep ELSE Hello>>]]] :
      n \in {k \in 0..MaxEcho : (MaxEcho - k) % 3 = 0}, deep \in BOOLEAN }

----------------------------------------------------------------------------
(* The program: parse the export, build the analyzer, query it *)

NoCall == [op |-> "none", arg |-> <<>>, at |-> 0]

Blank ==
    /\ now = 0
    /\ error = "none"
    /\ connections = <<>>
    /\ messages = <<>>
    /\ endorsements_given = <<>>
    /\ endorsements_received = <<>>
    /\ recommendations_given = <<>>
    /\ recommendations_received = <<>>
    /\ connections_by_name = EmptyIndex
    /\ messages_by_person = EmptyIndex
    /\ endorsements_received_by = EmptyIndex
    /\ endorsements_given_to = EmptyIndex
    /\ recommendations_received_from = EmptyIndex
    /\ recommendations_given_to = EmptyIndex
    /\ result = <<>>

\* LinkedInDataParser.__init__ over an export
Init ==
    /\ files \in SmallExports \cup PresenceExports \cup DatedExports \cup BrokenExports
    /\ pc = "start"
    /\ call = NoCall
    /\ Blank

\* time passes
Tick ==
    /\ pc \in {"start", "parsed", "ready"}
    /\ now < MaxTicks
    /\ now' = now + 1
    /\ UNCHANGED <<files, pc, error, parserVars, indexVars, call, result>>

\* LinkedInDataParser.parse_all: the four parsers in turn; the first
\* TypeError ends it and leaves what was appended so far
ParseAll ==
    /\ pc = "start"
    /\ LET e == parse_endorsements(now)
           r == IF e[1] THEN parse_recommendations(now) ELSE <<FALSE, <<>>, <<>> >>
       IN  /\ connections' = parse_connections(now)
           /\ messages' = parse_messages(now)
           /\ endorsements_received' = e[2]
           /\ endorsements_given' = e[3]
           /\ recommendations_received' = r[2]
           /\ recommendations_given' = r[3]
           /\ pc' = IF e[1] /\ r[1] THEN "parsed" ELSE "raised"
           /\ error' = IF e[1] /\ r[1] THEN "none" ELSE "TypeError"
    /\ UNCHANGED <<files, now, indexVars, call, result>>

\* NetworkAnalyzer.__init__: _build_indexes
BuildIndexes ==
    /\ pc = "parsed"
    /\ connections_by_name' = IndexConnections(connections, Len(connections))
    /\ IF IndexMessagesRaises(messages)
       THEN /\ pc' = "raised"
            /\ error' = "AttributeError"
            /\ UNCHANGED <<messages_by_person, endorsements_received_by,
                           endorsements_given_to, recommendations_received_from,
                           recommendations_given_to>>
       ELSE /\ pc' = "ready"
            /\ error' = "none"
            /\ messages_by_person' = IndexMessages(messages, Len(messages))
            /\ endorsements_received_by' =
                   CountByName(endorsements_received, Len(endorsements_received))
            /\ endorsements_given_to' =
                   CountByName(endorsements_given, Len(endorsements_given))
            /\ recommendations_received_from' =
                   CountByName(recommendations_received, Len(recommendations_received))
            /\ recommendations_given_to' =
                   CountByName(recommendations_given, Len(recommendations_given))
    /\ UNCHANGED <<files, now, parserVars, call, result>>

\* a call of calculate_relationship_scores that pops the messages of each
\* connection off the index (pop in the place of get)
CalculateScoresPopping ==
    /\ pc = "ready"
    /\ call' = [op |-> "calculate_relationship_scores", arg |-> <<>>, at |-> now]
    /\ IF ScoresRaise
       THEN pc' = "raised" /\ error' = "TypeError" /\ result' = <<>>
       ELSE pc' = pc /\ error' = error /\ result' = calculate_relationship_scores(now)
    /\ messages_by_person' =
            [k \in DOMAIN messages_by_person \
                    {Lower(full_name(connections[i])) : i \in 1..Len(connections)} |->
                messages_by_person[k]]
    /\ UNCHANGED <<files, now, parserVars, connections_by_name, endorsements_received_by,
                   endorsements_given_to, recommendations_received_from,
                   recommendations_given_to>>

\* a call of calculate_relationship_scores that indexes the defaultdicts
\* (index[name_lower] in the place of index.get(name_lower, ...)): every
\* connection's name becomes a key
CalculateScoresInserting ==
    /\ pc = "ready"
    /\ call' = [op |-> "calculate_relationship_scores", arg |-> <<>>, at |-> now]
    /\ IF ScoresRaise
       THEN pc' = "raised" /\ error' = "TypeError" /\ result' = <<>>
       ELSE pc' = pc /\ error' = error /\ result' = calculate_relationship_scores(now)
    /\ LET names == {Lower(full_name(connections[i])) : i \in 1..Len(connections)}
           touched(index, default) ==
               [k \in DOMAIN index \cup names |->
                   IF k \in DOMAIN index THEN index[k] ELSE default]
       IN  /\ messages_by_person' = touched(messages_by_person, <<>>)
           /\ endorsements_received_by' = touched(endorsements_received_by, 0)
           /\ endorsements_given_to' = touched(endorsements_given_to, 0)
           /\ recommendations_received_from' = touched(recommendations_received_from, 0)
           /\ recommendations_given_to' = touched(recommendations_given_to, 0)
    /\ UNCHANGED <<files, now, parserVars, connections_by_name>>

\* a call of calculate_relationship_scores
CalculateRelationshipScores ==
    /\ pc = "ready"
    /\ call' = [op |-> "calculate_relationship_scores", arg |-> <<>>, at |-> now]
    /\ IF ScoresRaise
       THEN pc' = "raised" /\ error' = "TypeError" /\ result' = <<>>
       ELSE pc' = pc /\ error' = error /\ result' = calculate_relationship_scores(now)
    /\ UNCHANGED <<files, now, parserVars, indexVars>>

\* the targets find_warm_paths is called with
Targets == { <<"a","c","m","e">>, <<"L","A","B","S">>, <<"z","z">> }

\* a call of find_warm_paths
FindWarmPaths ==
    /\ pc = "ready"
    /\ \E target_company \in Targets :
        /\ call' = [op |-> "find_warm_paths", arg |-> target_company, at |-> now]
        /\ IF ScoresRaise
           THEN pc' = "raised" /\ error' = "TypeError" /\ result' = <<>>
           ELSE IF WarmPathsRaise
           THEN pc' = "raised" /\ error' = "AttributeError" /\ result' = <<>>
           ELSE pc' = pc /\ error' = error /\ result' = find_warm_paths(target_company, now)
    /\ UNCHANGED <<files, now, parserVars, indexVars>>

\* a call of find_resurrection_opportunities
FindResurrectionOpportunities ==
    /\ pc = "ready"
    /\ call' = [op |-> "find_resurrection_opportunities", arg |-> <<>>, at |-> now]
    /\ IF ResurrectionRaises(now)
       THEN pc' = "raised" /\ error' = "AttributeError" /\ result' = <<>>
       ELSE pc' = pc /\ error' = error /\ result' = find_resurrection_opportunities(now)
    /\ UNCHANGED <<files, now, parserVars, indexVars>>

Next ==
    \/ Tick
    \/ ParseAll
    \/ BuildIndexes
    \/ CalculateRelationshipScores
    \/ FindWarmPaths
    \/ FindResurrectionOpportunities

Spec == Init /\ [][Next]_vars

\* the program over an export of many connections
WarmInit ==
    /\ files \in BulkExports
    /\ pc = "start"
    /\ call = NoCall
    /\ Blank

WarmSpec == WarmInit /\ [][Next]_vars

\* the numbers get_warmest_relationships, get_going_cold and
\* get_top_advocates are called with
TopNs == {0, 2, 20}

\* a call of get_warmest_relationships
GetWarmestRelationships ==
    /\ pc = "ready"
    /\ \E top_n \in TopNs :
        /\ call' = [op |-> "get_warmest_relationships", arg |-> top_n, at |-> now]
        /\ IF ScoresRaise
           THEN pc' = "raised" /\ error' = "TypeError" /\ result' = <<>>
           ELSE pc' = pc /\ error' = error /\ result' = get_warmest_relationships(top_n, now)
    /\ UNCHANGED <<files, now, parserVars, indexVars>>

\* a call of get_going_cold
GetGoingCold ==
    /\ pc = "ready"
    /\ \E top_n \in TopNs :
        /\ call' = [op |-> "get_going_cold", arg |-> top_n, at |-> now]
        /\ IF ScoresRaise
           THEN pc' = "raised" /\ error' = "TypeError" /\ result' = <<>>
           ELSE pc' = pc /\ error' = error /\ result' = get_going_cold(top_n, now)
    /\ UNCHANGED <<files, now, parserVars, indexVars>>

\* a call of get_top_advocates
GetTopAdvocates ==
    /\ pc = "ready"
    /\ \E top_n \in TopNs :
        /\ call' = [op |-> "get_top_advocates", arg |-> top_n, at |-> now]
        /\ IF ScoresRaise
           THEN pc' = "raised" /\ error' = "TypeError" /\ result' = <<>>
           ELSE pc' = pc /\ error' = error /\ result' = get_top_advocates(top_n, now)
    /\ UNCHANGED <<files, now, parserVars, indexVars>>

\* a call of get_reciprocity_balance
GetReciprocityBalance ==
    /\ pc = "ready"
    /\ call' = [op |-> "get_reciprocity_balance", arg |-> <<>>, at |-> now]
    /\ IF ScoresRaise
       THEN pc' = "raised" /\ error' = "TypeError" /\ result' = <<>>
       ELSE pc' = pc /\ error' = error /\ result' = get_reciprocity_balance(now)
    /\ UNCHANGED <<files, now, parserVars, indexVars>>

\* the program over an export of ranked connections, every query called
RankInit ==
    /\ files \in RankedExports \cup EchoExports
    /\ pc = "start"
    /\ call = NoCall
    /\ Blank

RankNext ==
    \/ Tick
    \/ ParseAll
    \/ BuildIndexes
    \/ CalculateRelationshipScores
    \/ GetWarmestRelationships
    \/ GetGoingCold
    \/ GetTopAdvocates
    \/ GetReciprocityBalance
    \/ FindWarmPaths
    \/ FindResurrectionOpportunities

RankSpec == RankInit /\ [][RankNext]_vars

\* the program over an export of message threads
ThreadInit ==
    /\ files \in ThreadExports \cup DormantExports
    /\ pc = "start"
    /\ call = NoCall
    /\ Blank

ThreadSpec == ThreadInit /\ [][Next]_vars

----------------------------------------------------------------------------
(* Message.is_deep as a function of the content *)

\* what a content is written around: nothing, each shallow phrase in lower
\* case, some in capitals, and the beginnings of two
DeepWords ==
    {<<>>} \cup {shallow_phrases[i] : i \in 1..Len(shallow_phrases)}
    \cup { <<"T","h","a","n","k","s">>, <<"C","O","N","G","R","A","T","S">>,
           <<"G","r","e","a","t"," ","P","o","s","t">>,
           <<"t","h","a","n","k">>, <<"i","n","t","e","r","e","s","t">> }

\* contents of up to MaxContent characters: a word at the start, in the
\* middle or at the end of the filler, and no content (the cell of a short row)
DeepContents ==
    {None} \cup
    { [i \in 1..lead |-> "."] \o Pad(word, n - lead) :
        word \in DeepWords,
        lead \in {0, 40, 120},
        n \in {k \in 0..MaxContent : k % 10 \in {0, 1, 9}} }

DeepInit ==
    /\ files = EmptyIndex
    /\ pc = "pure"
    /\ Blank
    /\ \E content \in DeepContents :
        call = [op |-> "is_deep", arg |-> content, at |-> 0]

\* Message.is_deep of a message of the given content
IsDeep ==
    /\ pc = "pure"
    /\ LET msg == [conversation_id |-> Conv, sender |-> AnnLee, recipient |-> Me,
                   date |-> 0, content |-> call.arg]
       IN  IF IsDeepRaises(msg)
           THEN pc' = "raised" /\ error' = "TypeError" /\ result' = <<>>
           ELSE pc' = "returned" /\ error' = error /\ result' = <<is_deep(msg)>>
    /\ UNCHANGED <<files, now, parserVars, indexVars, call>>

DeepSpec == DeepInit /\ [][IsDeep]_vars

----------------------------------------------------------------------------
(* _calculate_vouch_score as a function of its arguments *)

\* a list of n messages
Filled(n) ==
    [i \in 1..n |-> [conversation_id |-> Conv, sender |-> AnnLee, recipient |-> Me,
                     date |-> 0, content |-> Hello]]

\* values of days_since on both sides of every threshold
VouchDays == {0 - 1, 0, 10, 180, 181, 365, 366, 730, 731}

\* the arguments: <<messages, deep messages, days_since, recommendations
\* received, recommendations given, endorsements received>>
VouchArguments ==
    { <<n, k, d, rr, rg, er>> :
        n \in 0..MaxMessages, k \in 0..MaxDeep, d \in VouchDays,
        rr \in 0..MaxRecommendations, rg \in 0..MaxRecommendations,
        er \in 0..MaxEndorsements }

VouchInit ==
    /\ files = EmptyIndex
    /\ pc = "pure"
    /\ Blank
    /\ \E arg \in VouchArguments :
        /\ arg[2] <= arg[1]
        /\ call = [op |-> "_calculate_vouch_score", arg |-> arg, at |-> 0]

\* the call of _calculate_vouch_score
Vouch ==
    /\ pc = "pure"
    /\ pc' = "returned"
    /\ result' = calculate_vouch_score(Filled(call.arg[1]), Filled(call.arg[2]),
                                       call.arg[3], call.arg[4], call.arg[5], call.arg[6])
    /\ UNCHANGED <<files, now, error, parserVars, indexVars, call>>

VouchSpec == VouchInit /\ [][Vouch]_vars

\* the values of days_since: a contact dated ahead of the clock, today, and
\* up to MaxDays days ago
StrengthDays == (0 - 2)..MaxDays

\* two values of days_since, the smaller first
StrengthInit ==
    /\ files = EmptyIndex
    /\ pc = "pure"
    /\ Blank
    /\ \E d1 \in StrengthDays, d2 \in StrengthDays :
        /\ d1 < d2
        /\ call = [op |-> "half_life_strength", arg |-> <<d1, d2>>, at |-> 0]

\* the strength calculate_relationship_scores reports for each of the two
Strength ==
    /\ pc = "pure"
    /\ pc' = "returned"
    /\ result' = <<Strength10(call.arg[1]), Strength10(call.arg[2])>>
    /\ UNCHANGED <<files, now, error, parserVars, indexVars, call>>

StrengthSpec == StrengthInit /\ [][Strength]_vars

\* the counts of one connection: <<recommendations given, endorsements
\* given, recommendations received, endorsements received>>
ReciprocityInit ==
    /\ files = EmptyIndex
    /\ pc = "pure"
    /\ Blank
    /\ \E arg \in (0..MaxCount) \X (0..MaxCount) \X (0..MaxCount) \X (0..MaxCount) :
        call = [op |-> "reciprocity", arg |-> arg, at |-> 0]

\* the balance of the connection, and the balance of a connection with the
\* given and the received counts exchanged
Reciprocity ==
    /\ pc = "pure"
    /\ pc' = "returned"
    /\ result' = <<reciprocity(call.arg[1], call.arg[2], call.arg[3], call.arg[4]),
                   reciprocity(call.arg[3], call.arg[4], call.arg[1], call.arg[2])>>
    /\ UNCHANGED <<files, now, error, parserVars, indexVars, call>>

ReciprocitySpec == ReciprocityInit /\ [][Reciprocity]_vars

----------------------------------------------------------------------------
(* Claims *)

\* the vouch score the specification gives for the arguments arg
ClaimedVouch(arg) ==
    LET depth == CASE arg[1] = 0 -> 0
                   [] arg[1] > 0 /\ arg[2] = 0 -> 5
                   [] arg[2] \in 1..4 -> 15
                   [] OTHER -> 30
        recency == CASE arg[3] > 730 -> 0
                     [] arg[3] > 365 /\ arg[3] <= 730 -> 5
                     [] arg[3] > 180 /\ arg[3] <= 365 -> 10
                     [] OTHER -> 20
        recommendation == CASE arg[4] > 0 -> 30
                            [] arg[4] = 0 /\ arg[5] > 0 -> 10
                            [] OTHER -> 0
        endorsement == Min(2 * arg[6], 10)
        volume == CASE arg[1] > 20 -> 10
                    [] arg[1] > 10 /\ arg[1] <= 20 -> 5
                    [] OTHER -> 0
    IN  Min(100, depth + recency + recommendation + endorsement + volume)

\* C1: the vouch score _calculate_vouch_score returns is min(100, depth +
\* recency + recommendation + endorsement + volume) with the five signals of
\* the specification (received recommendations win over given ones); 6 deep
\* messages, 10 days, one recommendation received and 3 endorsements give 86
C1_VouchScore ==
    pc = "returned" =>
        /\ result = ClaimedVouch(call.arg)
        /\ (/\ call.arg[1] <= 10 /\ call.arg[2] = 6 /\ call.arg[3] = 10
            /\ call.arg[4] = 1 /\ call.arg[6] = 3) => result = 86

\* the scenario of C1 was computed, and so was one with a recommendation
\* both given and received
C1_Witness ==
    /\ pc = "returned"
    /\ call.arg = <<6, 6, 10, 1, 1, 3>>
    /\ result = 86


\* calculate_relationship_scores was called and returned
ScoresReturned == call.op = "calculate_relationship_scores" /\ pc = "ready"

\* the dates of the messages indexed under the connection's name, and of the
\* deep ones among them
DatesOf(conn) ==
    LET msgs == IndexGet(messages_by_person, Lower(full_name(conn)), <<>>)
    IN  {msgs[j].date : j \in 1..Len(msgs)}
DeepDatesOf(conn) ==
    LET msgs == IndexGet(messages_by_person, Lower(full_name(conn)), <<>>)
    IN  {msgs[j].date : j \in {k \in 1..Len(msgs) : is_deep(msgs[k])}}

Latest(dates) == CHOOSE d \in dates : \A e \in dates : e <= d

\* the last contact the specification gives for the connection
ClaimedLastContact(conn) ==
    IF DeepDatesOf(conn) # {} THEN Latest(DeepDatesOf(conn))
    ELSE IF DatesOf(conn) # {} THEN Latest(DatesOf(conn))
    ELSE conn.connected_on

\* C2: last_contact is the latest deep message under the connection's name,
\* else the latest message under it, else the connection date, and
\* days_since_contact is the whole number of days from it to the time of the call
C2_LastContact ==
    ScoresReturned =>
        \A i \in 1..Len(connections) :
            LET last == ClaimedLastContact(connections[i])
                d == result[i].days_since_contact
            IN  /\ d * TicksPerDay <= call.at - last
                /\ call.at - last < (d + 1) * TicksPerDay
                /\ DatesOf(connections[i]) # {} =>
                        result[i].last_meaningful_contact = <<last>>

\* a connection was scored whose latest deep message is older than its
\* latest message
C2_Witness ==
    /\ ScoresReturned
    /\ \E i \in 1..Len(connections) :
        /\ DeepDatesOf(connections[i]) # {}
        /\ Latest(DeepDatesOf(connections[i])) < Latest(DatesOf(connections[i]))
        /\ result[i].last_meaningful_contact = <<Latest(DeepDatesOf(connections[i]))>>

\* C3: every reported half_life_strength is greater than 0 and at most 100,
\* whatever the dates
C3_StrengthInRange ==
    ScoresReturned =>
        \A i \in 1..Len(result) :
            result[i].half_life_strength > 0 /\ result[i].half_life_strength <= 1000

\* the rows of a parsed table whose name folds to the connection's full name
RowsNamed(table, conn) ==
    Cardinality({j \in 1..Len(table) : Lower(table[j].name) = Lower(full_name(conn))})

\* C4: reciprocity_balance is (recommendations given x 10 + endorsements
\* given x 2) - (recommendations received x 10 + endorsements received x 2),
\* the counts being the rows of the four tables whose name folds to the
\* connection's full name
C4_Reciprocity ==
    ScoresReturned =>
        \A i \in 1..Len(connections) :
            LET conn == connections[i]
            IN  /\ result[i].recommendations_given = RowsNamed(recommendations_given, conn)
                /\ result[i].recommendations_received =
                        RowsNamed(recommendations_received, conn)
                /\ result[i].endorsements_given = RowsNamed(endorsements_given, conn)
                /\ result[i].endorsements_received = RowsNamed(endorsements_received, conn)
                /\ result[i].reciprocity_balance =
                        (RowsNamed(recommendations_given, conn) * 10
                            + RowsNamed(endorsements_given, conn) * 2)
                        - (RowsNamed(recommendations_received, conn) * 10
                            + RowsNamed(endorsements_received, conn) * 2)

\* a connection was scored that gave more than it received, with rows
\* counted whose name is written in another case than the connection's
C4_Witness ==
    /\ ScoresReturned
    /\ \E i \in 1..Len(connections) :
        /\ result[i].reciprocity_balance > 0
        /\ result[i].endorsements_received > 0
        /\ \E j \in 1..Len(recommendations_given) :
            /\ recommendations_given[j].name # full_name(connections[i])
            /\ Lower(recommendations_given[j].name) = Lower(full_name(connections[i]))

\* find_warm_paths was called and returned
WarmReturned == call.op = "find_warm_paths" /\ pc = "ready"

\* the connections whose company contains the target of the call, whatever
\* the case of either
Matching ==
    {i \in 1..Len(connections) :
        Contains(Lower(connections[i].company), Lower(call.arg))}

\* how often the score s is in the result, and how often it is the score
\* of a matching connection
Returned(s) == Cardinality({k \in 1..Len(result) : result[k] = s})
Matched(s) == Cardinality({i \in Matching : ScoreOf(connections[i], call.at) = s})

MatchingScores == {ScoreOf(connections[i], call.at) : i \in Matching}

NonIncreasing ==
    \A k \in 1..Len(result) - 1 : Warmth(result[k]) >= Warmth(result[k + 1])

\* C5: find_warm_paths returns the scores of all connections whose company
\* contains the target, whatever their number, and no other, ordered by
\* non-increasing half_life_strength + vouch_score
C5_AllMatches ==
    WarmReturned =>
        /\ \A s \in MatchingScores : Returned(s) = Matched(s)
        /\ \A k \in 1..Len(result) : result[k] \in MatchingScores
        /\ NonIncreasing

\* C5 as amended: find_warm_paths returns the scores of the matching
\* connections when they are at most 10 and otherwise 10 of them, none
\* left out having a higher half_life_strength + vouch_score than one
\* returned, and no other score, ordered by non-increasing
\* half_life_strength + vouch_score
C5_TopMatches ==
    WarmReturned =>
        /\ Len(result) = Min(WarmPathLimit, Cardinality(Matching))
        /\ \A k \in 1..Len(result) :
            /\ result[k] \in MatchingScores
            /\ Returned(result[k]) <= Matched(result[k])
        /\ \A s \in MatchingScores :
            Returned(s) < Matched(s) => Warmth(s) <= Warmth(result[Len(result)])
        /\ NonIncreasing

\* more than 10 connections matched, of different warmth, and 10 were
\* returned
C5_Witness ==
    /\ WarmReturned
    /\ Cardinality(Matching) > WarmPathLimit
    /\ Len(result) = WarmPathLimit
    /\ Warmth(result[1]) > Warmth(result[WarmPathLimit])
    /\ \E s \in MatchingScores : Returned(s) = 0

\* find_resurrection_opportunities was called and returned
ResurrectionReturned == call.op = "find_resurrection_opportunities" /\ pc = "ready"

\* the message is more than 90 days old at the time of the call and holds
\* a catch-up phrase, whatever its case
Promised(msg) ==
    /\ call.at - msg.date >= (ResurrectionMinDays + 1) * TicksPerDay
    /\ \E i \in 1..Len(catch_up_phrases) : Contains(Lower(msg.content), catch_up_phrases[i])

\* the messages indexed under the connection's name
IndexedMessages(conn) == IndexGet(messages_by_person, Lower(full_name(conn)), <<>>)

\* C6: every opportunity comes from a message more than 90 days old at the
\* time of the call that holds a catch-up phrase, and a connection without
\* such a message produces none
C6_Resurrection ==
    ResurrectionReturned =>
        /\ \A k \in 1..Len(result) :
            /\ result[k].days_ago > ResurrectionMinDays
            /\ \E i \in 1..Len(connections) :
                \E j \in 1..Len(IndexedMessages(connections[i])) :
                    LET msg == IndexedMessages(connections[i])[j]
                    IN  /\ Promised(msg)
                        /\ result[k].name = full_name(connections[i])
                        /\ result[k].last_message_date = msg.date
                        /\ result[k].days_ago * TicksPerDay <= call.at - msg.date
                        /\ call.at - msg.date < (result[k].days_ago + 1) * TicksPerDay
        /\ \A i \in 1..Len(connections) :
            (\A j \in 1..Len(IndexedMessages(connections[i])) :
                ~Promised(IndexedMessages(connections[i])[j]))
            => \A k \in 1..Len(result) : result[k].name # full_name(connections[i])

\* an opportunity was returned for a message 91 days old, and none for
\* another connection
C6_Witness ==
    /\ ResurrectionReturned
    /\ \E k \in 1..Len(result) : result[k].days_ago = ResurrectionMinDays + 1
    /\ \E i \in 1..Len(connections) :
        \A k \in 1..Len(result) : result[k].name # full_name(connections[i])

\* C7: every RelationshipScore carries a status label: "warm" if the
\* strength is above 50, else "cold" if it is above 20, else "dormant"
C7_StatusLabel ==
    ScoresReturned =>
        \A i \in 1..Len(result) :
            /\ "status" \in DOMAIN result[i]
            /\ result[i].status =
                    IF result[i].half_life_strength > 500 THEN "warm"
                    ELSE IF result[i].half_life_strength > 200 THEN "cold"
                    ELSE "dormant"

\* the rows of a file of the export that hold a cell
DataRows(name) ==
    IF name \in DOMAIN files THEN SelectSeq(files[name].rows, LAMBDA r : r # <<>>) ELSE <<>>

\* every row of the export has a cell for every column of its header
CompleteRows ==
    \A name \in DOMAIN files :
        \A i \in 1..Len(DataRows(name)) :
            Len(DataRows(name)[i]) = Len(files[name].header)

\* the collection parsed from a file
CollectionOf(name) ==
    CASE name = "Connections.csv" -> connections
      [] name = "messages.csv" -> messages
      [] name = "Endorsement_Received_Info.csv" -> endorsements_received
      [] name = "Endorsement_Given_Info.csv" -> endorsements_given
      [] name = "Recommendations_Received.csv" -> recommendations_received
      [] name = "Recommendations_Given.csv" -> recommendations_given

Absent(name) == name \notin DOMAIN files

CellOf(name, row, key) ==
    LET c == ColumnOf(files[name].header, key)
    IN  IF c <= Len(row) THEN row[c] ELSE None

\* the date the specification gives a connection row parsed at time t
ClaimedConnectedOn(row, t) ==
    LET cell == CellOf("Connections.csv", row, "Connected On")
    IN  IF cell[1] = "dmy" THEN cell[2] * TicksPerDay
        ELSE t - DefaultConnectionAgeDays * TicksPerDay

\* the date the specification gives a message row parsed at time t
ClaimedMessageDate(row, t) ==
    LET cell == CellOf("messages.csv", row, "DATE")
    IN  IF cell[1] = "ts" THEN cell[2] * TicksPerDay + cell[3]
        ELSE IF cell[1] \in {"ymd", "ymd_rest"} THEN cell[2] * TicksPerDay
        ELSE t

\* C9: parse_all keeps every data row of Connections.csv and messages.csv,
\* whatever its date: a connection whose date does not parse gets the parse
\* time minus 365 days, a message whose DATE is no full timestamp gets the
\* date of its first 10 characters, or the parse time when that fails too
C9_DateDefaults ==
    [][pc = "start" /\ pc' # "start" =>
        /\ Len(connections') = Len(DataRows("Connections.csv"))
        /\ Len(messages') = Len(DataRows("messages.csv"))
        /\ \A i \in 1..Len(connections') :
            connections'[i].connected_on =
                ClaimedConnectedOn(DataRows("Connections.csv")[i], now)
        /\ \A i \in 1..Len(messages') :
            messages'[i].date = ClaimedMessageDate(DataRows("messages.csv")[i], now)]_vars

\* a connection whose date did not parse and a message whose DATE fitted
\* no format were parsed and kept
C9_Witness ==
    /\ pc = "parsed"
    /\ Len(connections) = 1
    /\ Len(messages) = 1
    /\ CellOf("Connections.csv", DataRows("Connections.csv")[1], "Connected On")[1]
            \in {"ymd", "junk"}
    /\ CellOf("messages.csv", DataRows("messages.csv")[1], "DATE")[1] \in {"dmy", "junk"}
    /\ connections[1].connected_on + DefaultConnectionAgeDays * TicksPerDay \in 0..now
    /\ messages[1].date \in 0..now

\* C10: whatever the present files hold, rows shorter than the header
\* included, parse_all, calculate_relationship_scores, find_warm_paths and
\* find_resurrection_opportunities return instead of raising
C10_NothingRaises == pc # "raised"

Ready == pc = "ready"

\* the lower-cased names under which anything is or could be indexed
IndexKeys ==
    DOMAIN messages_by_person
    \cup {Lower(messages[j].sender) : j \in 1..Len(messages)}
    \cup {Lower(messages[j].recipient) : j \in 1..Len(messages)}
    \cup {Lower(full_name(connections[i])) : i \in 1..Len(connections)}
    \cup DOMAIN endorsements_received_by \cup DOMAIN endorsements_given_to
    \cup DOMAIN recommendations_received_from \cup DOMAIN recommendations_given_to
    \cup {Lower(endorsements_received[j].name) : j \in 1..Len(endorsements_received)}
    \cup {Lower(endorsements_given[j].name) : j \in 1..Len(endorsements_given)}
    \cup {Lower(recommendations_received[j].name) : j \in 1..Len(recommendations_received)}
    \cup {Lower(recommendations_given[j].name) : j \in 1..Len(recommendations_given)}

\* the rows of a table whose name lower-cases to the key
RowsUnder(table, key) == Cardinality({j \in 1..Len(table) : Lower(table[j].name) = key})

\* C12: after _build_indexes, messages_by_person holds under every
\* lower-cased name exactly the parsed messages whose sender or recipient is
\* that name ignoring case, in file order, and the four count indexes hold
\* the number of rows of their table with that name ignoring case
C12_IndexContents ==
    Ready =>
        \A key \in IndexKeys :
            /\ IndexGet(messages_by_person, key, <<>>) =
                    SelectSeq(messages,
                        LAMBDA m : Lower(m.sender) = key \/ Lower(m.recipient) = key)
            /\ IndexGet(endorsements_received_by, key, 0) =
                    RowsUnder(endorsements_received, key)
            /\ IndexGet(endorsements_given_to, key, 0) = RowsUnder(endorsements_given, key)
            /\ IndexGet(recommendations_received_from, key, 0) =
                    RowsUnder(recommendations_received, key)
            /\ IndexGet(recommendations_given_to, key, 0) =
                    RowsUnder(recommendations_given, key)

\* score i is that of a connection without messages, endorsements or
\* recommendations, connected exactly 365 days before the call
YearOld(i) ==
    /\ result[i].messages_exchanged = 0
    /\ call.at - connections[i].connected_on = 365 * TicksPerDay
    /\ result[i].recommendations_received = 0
    /\ result[i].recommendations_given = 0
    /\ result[i].endorsements_received = 0

\* C13: a connection with no messages connected exactly 365 days before the
\* evaluation gets days_since_contact 365, a strength of about 24.4, the
\* status "cold" and the vouch score 5
C13_YearOldScenario ==
    ScoresReturned =>
        \A i \in 1..Len(result) :
            YearOld(i) =>
                /\ result[i].days_since_contact = 365
                /\ result[i].half_life_strength \in 243..245
                /\ "status" \in DOMAIN result[i]
                /\ result[i].status = "cold"
                /\ result[i].vouch_score = 5

\* C13 as amended: such a connection gets days_since_contact 365, the
\* strength 24.5 and the vouch score 10 (recency 10: 365 is not above 365)
C13_YearOldScores ==
    ScoresReturned =>
        \A i \in 1..Len(result) :
            YearOld(i) =>
                /\ result[i].days_since_contact = 365
                /\ result[i].half_life_strength = 245
                /\ result[i].vouch_score = 10

\* such a connection was scored
C13_Witness ==
    /\ ScoresReturned
    /\ \E i \in 1..Len(result) : YearOld(i) /\ result[i].vouch_score = 10

\* C14: the vouch score is between 0 and 100 inclusive, whatever the
\* messages, recommendations, endorsements and days, negative days included
C14_VouchRange == pc = "returned" => result >= 0 /\ result <= 100

\* every signal at its highest, for a contact dated ahead of the clock
C14_Witness ==
    /\ pc = "returned"
    /\ call.arg[3] < 0
    /\ call.arg[6] > 5
    /\ result = 100

\* the two strengths were computed
StrengthReturned == pc = "returned" /\ call.op = "half_life_strength"

\* C15: of two scores computed with days_since d1 < d2, the first reports
\* a strictly greater half_life_strength
C15_StrictlyDecreasing == StrengthReturned => result[1] > result[2]

\* C15 as amended: of two scores computed with days_since d1 < d2, the
\* first never reports a smaller half_life_strength, and reports a strictly
\* greater one when d2 is at most 369
C15_NonIncreasing ==
    StrengthReturned =>
        /\ result[1] >= result[2]
        /\ call.arg[2] <= 369 => result[1] > result[2]

\* 369 and 370 days report the same strength
C15_Witness ==
    /\ StrengthReturned
    /\ call.arg = <<369, 370>>
    /\ result[1] = result[2]

\* C16: days_since 180 gives the strength 50 exactly, 0 gives 100 and 360
\* gives 25
C16_HalfLife ==
    StrengthReturned =>
        \A i \in 1..2 :
            /\ call.arg[i] = HALF_LIFE_DAYS => result[i] = 500
            /\ call.arg[i] = 0 => result[i] = 1000
            /\ call.arg[i] = 2 * HALF_LIFE_DAYS => result[i] = 250

\* the strengths after one and after two half-lives were computed
C16_Witness ==
    /\ StrengthReturned
    /\ call.arg = <<HALF_LIFE_DAYS, 2 * HALF_LIFE_DAYS>>
    /\ result = <<500, 250>>

\* the two balances were computed
ReciprocityReturned == pc = "returned" /\ call.op = "reciprocity"

\* C17: exchanging the given counts of a connection with its received
\* counts negates its reciprocity_balance, and equal given and received
\* counts give the balance 0
C17_SkewSymmetric ==
    ReciprocityReturned =>
        /\ result[2] = 0 - result[1]
        /\ (call.arg[1] = call.arg[3] /\ call.arg[2] = call.arg[4]) => result[1] = 0

\* a positive balance was negated by the exchange
C17_Witness ==
    /\ ReciprocityReturned
    /\ call.arg = <<1, 3, 0, 2>>
    /\ result = <<12, 0 - 12>>

\* the positions of the messages indexed under the connection's name that
\* are more than 90 days old and hold a catch-up phrase
PromisedAt(conn) ==
    {j \in 1..Len(IndexedMessages(conn)) : Promised(IndexedMessages(conn)[j])}

\* the first of them in the order of the index
FirstPromised(conn) ==
    IndexedMessages(conn)[CHOOSE j \in PromisedAt(conn) : \A k \in PromisedAt(conn) : j <= k]

\* the opportunities returned under the connection's name
OpportunitiesOf(conn) == {k \in 1..Len(result) : result[k].name = full_name(conn)}

\* C18: find_resurrection_opportunities emits at most one opportunity per
\* connection, built from the first message in index order that is more
\* than 90 days old and holds a catch-up phrase; its hook is a preview of
\* bounded length of that message's content
C18_FirstQualifying ==
    ResurrectionReturned =>
        /\ \A k \in 1..Len(result) :
            \E i \in 1..Len(connections) :
                /\ result[k].name = full_name(connections[i])
                /\ PromisedAt(connections[i]) # {}
                /\ LET msg == FirstPromised(connections[i])
                   IN  /\ result[k].last_message_date = msg.date
                       /\ result[k].days_ago * TicksPerDay <= call.at - msg.date
                       /\ call.at - msg.date < (result[k].days_ago + 1) * TicksPerDay
                       /\ result[k].hook = Take(msg.content, HookLength) \o <<".", ".", ".">>
                       /\ Len(result[k].hook) <= HookLength + 3
        /\ \A i \in 1..Len(connections) :
            Cardinality(OpportunitiesOf(connections[i])) <=
                Cardinality({j \in 1..Len(connections) :
                                full_name(connections[j]) = full_name(connections[i])})

\* an opportunity was built from a message longer than the hook although a
\* later message of the connection, of another date, qualified as well
C18_Witness ==
    /\ ResurrectionReturned
    /\ \E k \in 1..Len(result) : \E i \in 1..Len(connections) :
        /\ result[k].name = full_name(connections[i])
        /\ Cardinality(OpportunitiesOf(connections[i])) = 1
        /\ Len(FirstPromised(connections[i]).content) > HookLength
        /\ Len(result[k].hook) = HookLength + 3
        /\ \E j \in PromisedAt(connections[i]) :
            IndexedMessages(connections[i])[j].date # result[k].last_message_date

\* the connections with a message more than 90 days old that holds a
\* catch-up phrase
Qualifying == {i \in 1..Len(connections) : PromisedAt(connections[i]) # {}}

\* the age in whole days of the first such message of the connection
FirstAge(conn) == (call.at - FirstPromised(conn).date) \div TicksPerDay

\* C19: the list find_resurrection_opportunities returns is ordered by
\* non-decreasing days_ago and has at most 20 entries; when more than 20
\* connections qualify, the 20 returned are those with the smallest days_ago
C19_SortedCapped ==
    ResurrectionReturned =>
        /\ \A k \in 1..Len(result) - 1 : result[k].days_ago <= result[k + 1].days_ago
        /\ Len(result) <= 20
        /\ Len(result) = Min(20, Cardinality(Qualifying))
        /\ \A i \in Qualifying :
            OpportunitiesOf(connections[i]) = {} =>
                FirstAge(connections[i]) >= result[Len(result)].days_ago

\* more than 20 connections qualified, 20 were returned, and one left out
\* is older than every one returned
C19_Witness ==
    /\ ResurrectionReturned
    /\ Cardinality(Qualifying) > 20
    /\ Len(result) = 20
    /\ result[1].days_ago < result[20].days_ago
    /\ \E i \in Qualifying :
        /\ OpportunitiesOf(connections[i]) = {}
        /\ FirstAge(connections[i]) > result[20].days_ago

\* C20: find_warm_paths with a target that no connection's company
\* contains returns the empty sequence and raises nothing, also when there
\* is no connection at all
C20_NoMatchEmpty ==
    (call.op = "find_warm_paths" /\ Matching = {}) => pc = "ready" /\ result = <<>>

\* a connection under whose name no message and no count is indexed
Unindexed(conn) ==
    Lower(full_name(conn)) \notin
        DOMAIN messages_by_person \cup DOMAIN endorsements_received_by
        \cup DOMAIN endorsements_given_to \cup DOMAIN recommendations_received_from
        \cup DOMAIN recommendations_given_to

\* C21: once the analyzer is built, no step changes the six collections of
\* the parser or any index: every query leaves their keys and values as they were
C21_IndexesReadOnly == [][pc = "ready" => UNCHANGED <<parserVars, indexVars>>]_vars

\* a ranking query returned over connections some of which are indexed nowhere
C21_Witness ==
    /\ pc = "ready"
    /\ call.op = "get_going_cold"
    /\ Len(result) > 0
    /\ \E i \in 1..Len(connections) : Unindexed(connections[i])
    /\ \E i \in 1..Len(connections) : ~Unindexed(connections[i])

\* is_deep returned for a content
DeepReturned == call.op = "is_deep" /\ pc = "returned"

\* the lower-cased content holds one of the seven shallow phrases
HoldsShallowPhrase(content) ==
    \E phrase \in { <<"c","o","n","g","r","a","t","s">>,
                    <<"c","o","n","g","r","a","t","u","l","a","t","i","o","n","s">>,
                    <<"t","h","a","n","k","s">>, <<"t","h","a","n","k"," ","y","o","u">>,
                    <<"h","a","p","p","y"," ","b","i","r","t","h","d","a","y">>,
                    <<"g","r","e","a","t"," ","p","o","s","t">>,
                    <<"i","n","t","e","r","e","s","t","i","n","g">> } :
        Contains(Lower(content), phrase)

\* C22: is_deep is true exactly when the content has 100 characters or more
\* and either holds no shallow phrase once lower-cased or has 150 or more:
\* under 100 a message is never deep, from 150 on it always is
C22_IsDeep ==
    DeepReturned =>
        /\ result[1] = (Len(call.arg) >= 100
                        /\ (~HoldsShallowPhrase(call.arg) \/ Len(call.arg) >= 150))
        /\ Len(call.arg) < 100 => result[1] = FALSE
        /\ Len(call.arg) >= 150 => result[1] = TRUE

\* a content of 100 to 149 characters with a capitalised shallow phrase is not deep
C22_Witness ==
    /\ DeepReturned
    /\ Len(call.arg) >= 100
    /\ Len(call.arg) < 150
    /\ HoldsShallowPhrase(call.arg)
    /\ \A i \in 1..Len(shallow_phrases) : ~Contains(call.arg, shallow_phrases[i])
    /\ result[1] = FALSE

\* a ranking query returned
RankingReturned ==
    /\ call.op \in {"get_warmest_relationships", "get_top_advocates", "get_going_cold"}
    /\ pc = "ready"

\* the key the query of the call ranks a score by
RankingKey(s) ==
    IF call.op = "get_warmest_relationships" THEN s.half_life_strength ELSE s.vouch_score

\* C23: a ranking query returns the first top_n of its candidates in a stable
\* descending order of the key: all connections by strength (warmest) or by
\* vouch score (advocates), those of strength 30 to 70 by vouch score (going
\* cold); equal keys keep the order of the connections, what is left out ranks
\* no higher than what is returned, and min(top_n, candidates) are returned
C23_Ranking ==
    RankingReturned =>
        LET scores == [i \in 1..Len(connections) |-> ScoreOf(connections[i], call.at)]
            key == [i \in 1..Len(connections) |-> RankingKey(scores[i])]
            candidates ==
                IF call.op = "get_going_cold"
                THEN {i \in 1..Len(connections) :
                        /\ scores[i].half_life_strength >= 300
                        /\ scores[i].half_life_strength <= 700}
                ELSE 1..Len(connections)
            place == [i \in candidates |->
                        1 + Cardinality({j \in candidates :
                                \/ key[j] > key[i]
                                \/ key[j] = key[i] /\ j < i})]
        IN  /\ Len(result) = Min(call.arg, Cardinality(candidates))
            /\ \A k \in 1..Len(result) - 1 :
                    RankingKey(result[k]) >= RankingKey(result[k + 1])
            /\ \A i \in candidates :
                    IF place[i] <= Len(result)
                    THEN result[place[i]] = scores[i]
                    ELSE \A k \in 1..Len(result) : RankingKey(result[k]) >= key[i]

\* get_going_cold(2) over 21 connections: some are too warm or too cold to
\* be candidates, more than two are, and the two returned have one vouch
\* score and stand in the order of the table
C23_Witness ==
    /\ RankingReturned
    /\ call.op = "get_going_cold"
    /\ call.arg = 2
    /\ Len(connections) = 21
    /\ Len(result) = 2
    /\ result[1].vouch_score = result[2].vouch_score
    /\ \E i, j \in 1..Len(connections) :
        /\ i < j
        /\ ScoreOf(connections[i], call.at) = result[1]
        /\ ScoreOf(connections[j], call.at) = result[2]
    /\ \E i \in 1..Len(connections) :
        /\ ScoreOf(connections[i], call.at).half_life_strength \in 300..700
        /\ ScoreOf(connections[i], call.at).vouch_score < result[2].vouch_score
    /\ \E i \in 1..Len(connections) :
        ScoreOf(connections[i], call.at).half_life_strength \notin 300..700

\* get_reciprocity_balance returned its two lists
BalanceReturned == call.op = "get_reciprocity_balance" /\ pc = "ready"

\* C24: get_reciprocity_balance returns two lists of scores of at most 15
\* entries each that share no entry: the first holds positive balances only,
\* in non-increasing order, the second negative balances only, in
\* non-decreasing order; a connection of balance 0 is in neither
C24_ReciprocityBalance ==
    BalanceReturned =>
        LET they_owe == result[1]
            you_owe == result[2]
            scores == {ScoreOf(connections[i], call.at) : i \in 1..Len(connections)}
        IN  /\ Len(they_owe) <= 15
            /\ Len(you_owe) <= 15
            /\ \A k \in 1..Len(they_owe) :
                    they_owe[k] \in scores /\ they_owe[k].reciprocity_balance > 0
            /\ \A k \in 1..Len(you_owe) :
                    you_owe[k] \in scores /\ you_owe[k].reciprocity_balance < 0
            /\ \A k \in 1..Len(they_owe) - 1 :
                    they_owe[k].reciprocity_balance >= they_owe[k + 1].reciprocity_balance
            /\ \A k \in 1..Len(you_owe) - 1 :
                    you_owe[k].reciprocity_balance <= you_owe[k + 1].reciprocity_balance
            /\ \A k \in 1..Len(they_owe), l \in 1..Len(you_owe) : they_owe[k] # you_owe[l]
            /\ \A s \in scores :
                    s.reciprocity_balance = 0 =>
                        /\ \A k \in 1..Len(they_owe) : they_owe[k] # s
                        /\ \A l \in 1..Len(you_owe) : you_owe[l] # s

\* more than 15 connections owe the user, of whom 15 are returned, some are
\* owed by the user, and some are even
C24_Witness ==
    /\ BalanceReturned
    /\ Len(result[1]) = 15
    /\ Len(result[2]) >= 2
    /\ result[1][1].reciprocity_balance > result[1][15].reciprocity_balance
    /\ Cardinality({i \in 1..Len(connections) :
            ScoreOf(connections[i], call.at).reciprocity_balance > 0}) > 15
    /\ \E i \in 1..Len(connections) :
            ScoreOf(connections[i], call.at).reciprocity_balance = 0

\* the parsed messages sent by or to the name, whatever the case
Mentions(conn) ==
    {j \in 1..Len(messages) :
        \/ Lower(messages[j].sender) = Lower(full_name(conn))
        \/ Lower(messages[j].recipient) = Lower(full_name(conn))}

\* C25: calculate_relationship_scores returns one score for each parsed
\* connection, in the order of the table; connections of one lower-cased name
\* each get a record of their own with the same message, endorsement and
\* recommendation counts; last_meaningful_contact is null exactly when no
\* message is indexed under the name
C25_OneScoreEach ==
    ScoresReturned =>
        /\ Len(result) = Len(connections)
        /\ \A i \in 1..Len(connections) :
            /\ result[i].name = connections[i].first_name \o <<" ">> \o connections[i].last_name
            /\ result[i].company = connections[i].company
            /\ IF Mentions(connections[i]) = {}
               THEN result[i].last_meaningful_contact = None
               ELSE result[i].last_meaningful_contact =
                        <<ClaimedLastContact(connections[i])>>
        /\ \A i, j \in 1..Len(connections) :
            Lower(full_name(connections[i])) = Lower(full_name(connections[j])) =>
                /\ result[i].messages_exchanged = result[j].messages_exchanged
                /\ result[i].endorsements_given = result[j].endorsements_given
                /\ result[i].endorsements_received = result[j].endorsements_received
                /\ result[i].recommendations_given = result[j].recommendations_given
                /\ result[i].recommendations_received = result[j].recommendations_received

\* two connections whose names differ in case only were scored, each under
\* its own name, with the one message and the endorsements of the shared key;
\* another connection has no message
C25_Witness ==
    /\ ScoresReturned
    /\ Len(result) = 21
    /\ \E i, j \in 1..Len(connections) :
        /\ i < j
        /\ Lower(full_name(connections[i])) = Lower(full_name(connections[j]))
        /\ result[i].name # result[j].name
        /\ result[i].messages_exchanged = 1
        /\ result[j].messages_exchanged = 1
        /\ result[i].endorsements_given > 0
    /\ \E i \in 1..Len(connections) :
        Mentions(connections[i]) = {} /\ result[i].last_meaningful_contact = None

\* the parsed messages whose sender, or whose recipient, lower-cases to the
\* connection's name
SentBy(conn) == {j \in 1..Len(messages) : Lower(messages[j].sender) = Lower(full_name(conn))}
SentTo(conn) ==
    {j \in 1..Len(messages) : Lower(messages[j].recipient) = Lower(full_name(conn))}

DeepAmong(S) == Cardinality({j \in S : is_deep(messages[j])})

\* C26: messages_exchanged is the number of parsed messages sent by the name
\* plus the number sent to it, a message from the name to itself counting
\* twice, and the vouch score takes its depth and its volume from these
\* doubled counts
C26_MessagesCounted ==
    ScoresReturned =>
        \A i \in 1..Len(connections) :
            LET sent == SentBy(connections[i])
                received == SentTo(connections[i])
                exchanged == Cardinality(sent) + Cardinality(received)
            IN  /\ result[i].messages_exchanged = exchanged
                /\ result[i].vouch_score =
                       ClaimedVouch(<<exchanged, DeepAmong(sent) + DeepAmong(received),
                                      result[i].days_since_contact,
                                      result[i].recommendations_received,
                                      result[i].recommendations_given,
                                      result[i].endorsements_received>>)

\* six deep messages a connection sent to herself count as twelve: depth 30,
\* recency 20 and the volume bonus of more than ten messages
C26_Witness ==
    /\ ScoresReturned
    /\ Len(messages) = 6
    /\ Len(result) = 1
    /\ SentBy(connections[1]) = SentTo(connections[1])
    /\ result[1].messages_exchanged = 12
    /\ result[1].vouch_score = 55

====
